---- MODULE Spec2Model ----
(***************************************************************************)
(* Model of the currency calculator (src/src/lib.rs): the cache freshness  *)
(* check, the download, the loader, the argument parser, the listings and  *)
(* the conversion, as one sequential run that can be started again and     *)
(* again on the same cache file.                                           *)
(*                                                                         *)
(* Strings are sequences of bytes (ASCII codes), so that upper-casing,     *)
(* prefix tests, ordering and number parsing are computed, not assumed.    *)
(* An f64 is a record: [k |-> "fin", n, d] (the rational n/d in lowest     *)
(* terms, d > 0), [k |-> "inf"], [k |-> "ninf"] or [k |-> "nan"]; the      *)
(* rounding of finite results is not modelled.                             *)
(***************************************************************************)
EXTENDS Integers, Sequences, FiniteSets, TLC

VARIABLES
    pc,          \* position of the run: idle, check, download, load, parse, ...
    now,         \* SystemTime::now(), whole seconds since the epoch
    ticks,       \* number of clock advances so far (bounded)
    overflowChecks, \* build profile: TRUE = overflow-checks on (debug build)
    file,        \* the cache file /tmp/currency.json
    args,        \* env::args().skip(1) of the current run
    fresh,       \* result of check_rates_file in this run ("none" before)
    chk,         \* what check_rates_file saw: the file and the clock
    fetched,     \* result of download_rates_file in this run ("none" if not called)
    loaded,      \* result of load_rates_file_from_disk ("none" if not called)
    rates,       \* HashMap<String, f64> of run()
    parsed,      \* what parse_arguments did: outcome and tokens examined
    exchange,    \* ExchangeProcess of run()
    out,         \* codes printed by a listing, in order
    steps,       \* the steps this run has executed, in order
    exitKind,    \* none, exit (process::exit), panic, return (run returned true)
    exitCode

vars == <<pc, now, ticks, overflowChecks, file, args, fresh, chk, fetched, loaded,
          rates, parsed, exchange, out, steps, exitKind, exitCode>>

(***************************************************************************)
(* Bounds of the model.                                                    *)
(***************************************************************************)
MaxTicks == 2
MaxArgs == 4
StartTime == 7200

(***************************************************************************)
(* Byte strings.                                                           *)
(***************************************************************************)
S_eur == <<101, 117, 114>>
S_EUR == <<69, 85, 82>>
S_usd == <<117, 115, 100>>
S_Usd == <<85, 115, 100>>
S_USD == <<85, 83, 68>>
S_JPY == <<74, 80, 89>>
S_GBP == <<71, 66, 80>>
S_gbp == <<103, 98, 112>>
S_XYZ == <<88, 89, 90>>
S_xyz == <<120, 121, 122>>
S_abc == <<97, 98, 99>>
S_chf == <<99, 104, 102>>
S_50 == <<53, 48>>
S_1p5 == <<49, 46, 53>>
S_x == <<120>>
S_nan == <<110, 97, 110>>
S_7 == <<55>>
S_rates == <<114, 97, 116, 101, 115>>
S_base == <<98, 97, 115, 101>>
S_h == <<45, 104>>
S_help == <<45, 45, 104, 101, 108, 112>>
S_V == <<45, 86>>
S_version == <<45, 45, 118, 101, 114, 115, 105, 111, 110>>
S_lu == <<45, 108, 117>>
S_list_usual == <<45, 45, 108, 105, 115, 116, 45, 117, 115, 117, 97, 108>>
S_l == <<45, 108>>
S_list == <<45, 45, 108, 105, 115, 116>>
S_la == <<45, 108, 97>>
S_list_all == <<45, 45, 108, 105, 115, 116, 45, 97, 108, 108>>
S_q == <<45, 113>>

\* u8::to_ascii_uppercase
ByteUpper(b) == IF b >= 97 /\ b <= 122 THEN b - 32 ELSE b
ByteLower(b) == IF b >= 65 /\ b <= 90 THEN b + 32 ELSE b

\* str::to_ascii_uppercase
ToAsciiUppercase(s) == [i \in 1..Len(s) |-> ByteUpper(s[i])]
ToAsciiLowercase(s) == [i \in 1..Len(s) |-> ByteLower(s[i])]

\* str::starts_with('-')
StartsWithDash(s) == Len(s) >= 1 /\ s[1] = 45

\* Ord for String: byte-wise lexicographic order, a shorter prefix first
RECURSIVE StrLess(_, _)
StrLess(a, b) ==
    IF Len(b) = 0 THEN FALSE
    ELSE IF Len(a) = 0 THEN TRUE
    ELSE IF a[1] < b[1] THEN TRUE
    ELSE IF a[1] > b[1] THEN FALSE
    ELSE StrLess(Tail(a), Tail(b))

StrLeq(a, b) == a = b \/ StrLess(a, b)

\* Vec::sort_by_key on the keys of a map: the keys in ascending order
RECURSIVE SortedKeys(_)
SortedKeys(S) ==
    IF S = {} THEN << >>
    ELSE LET m == CHOOSE x \in S : \A y \in S : StrLeq(x, y)
         IN  <<m>> \o SortedKeys(S \ {m})

(***************************************************************************)
(* f64 values.                                                             *)
(***************************************************************************)
RECURSIVE Gcd(_, _)
Gcd(a, b) == IF b = 0 THEN a ELSE Gcd(b, a % b)

Abs(x) == IF x < 0 THEN -x ELSE x

\* the finite value n/d (d # 0) in lowest terms with a positive denominator
Fin(n, d) ==
    LET g == Gcd(Abs(n), Abs(d))
        s == IF d < 0 THEN -1 ELSE 1
    IN  [k |-> "fin", n |-> (s * n) \div g, d |-> (s * d) \div g]

FInf == [k |-> "inf"]
FNegInf == [k |-> "ninf"]
FNan == [k |-> "nan"]
FZero == Fin(0, 1)
FOne == Fin(1, 1)

\* -1, 0 or 1; not used for NaN
FSign(a) ==
    IF a.k = "inf" THEN 1
    ELSE IF a.k = "ninf" THEN -1
    ELSE IF a.n > 0 THEN 1 ELSE IF a.n < 0 THEN -1 ELSE 0

\* f64 division (IEEE 754), as in rates[to] / rates[from]
FDiv(a, b) ==
    IF a.k = "nan" \/ b.k = "nan" THEN FNan
    ELSE IF a.k # "fin" /\ b.k # "fin" THEN FNan
    ELSE IF a.k # "fin" THEN
        (IF FSign(a) * (IF FSign(b) < 0 THEN -1 ELSE 1) > 0 THEN FInf ELSE FNegInf)
    ELSE IF b.k # "fin" THEN FZero
    ELSE IF b.n = 0 THEN
        (IF a.n = 0 THEN FNan ELSE IF a.n > 0 THEN FInf ELSE FNegInf)
    ELSE Fin(a.n * b.d, a.d * b.n)

\* f64 multiplication (IEEE 754), as in amount_from * rate
FMul(a, b) ==
    IF a.k = "nan" \/ b.k = "nan" THEN FNan
    ELSE IF a.k = "fin" /\ b.k = "fin" THEN Fin(a.n * b.n, a.d * b.d)
    ELSE IF FSign(a) * FSign(b) = 0 THEN FNan
    ELSE IF FSign(a) * FSign(b) > 0 THEN FInf ELSE FNegInf

\* f64 == : NaN equals nothing
FEq(a, b) == a.k # "nan" /\ b.k # "nan" /\ a = b

IsDigit(b) == b >= 48 /\ b <= 57

RECURSIVE Pow10(_)
Pow10(e) == IF e = 0 THEN 1 ELSE 10 * Pow10(e - 1)

\* the value of a string of digits (0 for the empty string)
RECURSIVE DigitsValue(_)
DigitsValue(s) ==
    IF Len(s) = 0 THEN 0
    ELSE 10 * DigitsValue(SubSeq(s, 1, Len(s) - 1)) + (s[Len(s)] - 48)

AllDigits(s) == \A i \in 1..Len(s) : IsDigit(s[i])

\* index of the first byte of s in set B, or 0
FirstIn(s, B) ==
    IF \E i \in 1..Len(s) : s[i] \in B
    THEN CHOOSE i \in 1..Len(s) : s[i] \in B /\ \A j \in 1..(i - 1) : s[j] \notin B
    ELSE 0

\* <f64 as FromStr>::from_str: Sign? ( 'inf' | 'infinity' | 'nan' | Number ),
\* Number ::= ( Digit+ | Digit+ '.' Digit* | Digit* '.' Digit+ ) Exp?,
\* Exp ::= 'e' Sign? Digit+, letters in either case
ParseF64(s) ==
    LET signed == Len(s) >= 1 /\ s[1] \in {43, 45}
        neg == Len(s) >= 1 /\ s[1] = 45
        body == IF signed THEN Tail(s) ELSE s
        low == ToAsciiLowercase(body)
        ePos == FirstIn(low, {101})
        mant == IF ePos = 0 THEN low ELSE SubSeq(low, 1, ePos - 1)
        expo == IF ePos = 0 THEN << >> ELSE SubSeq(low, ePos + 1, Len(low))
        eSigned == Len(expo) >= 1 /\ expo[1] \in {43, 45}
        eNeg == Len(expo) >= 1 /\ expo[1] = 45
        eDigits == IF eSigned THEN Tail(expo) ELSE expo
        dotPos == FirstIn(mant, {46})
        intPart == IF dotPos = 0 THEN mant ELSE SubSeq(mant, 1, dotPos - 1)
        fracPart == IF dotPos = 0 THEN << >> ELSE SubSeq(mant, dotPos + 1, Len(mant))
        mantOk == /\ AllDigits(intPart) /\ AllDigits(fracPart)
                  /\ Len(intPart) + Len(fracPart) >= 1
        expOk == ePos = 0 \/ (Len(eDigits) >= 1 /\ AllDigits(eDigits))
        m == DigitsValue(intPart) * Pow10(Len(fracPart)) + DigitsValue(fracPart)
        e == DigitsValue(eDigits)
        num == IF eNeg THEN m ELSE m * Pow10(e)
        den == IF eNeg THEN Pow10(Len(fracPart)) * Pow10(e) ELSE Pow10(Len(fracPart))
    IN  IF low \in {<<105, 110, 102>>, <<105, 110, 102, 105, 110, 105, 116, 121>>}
        THEN [ok |-> TRUE, v |-> IF neg THEN FNegInf ELSE FInf]
        ELSE IF low = <<110, 97, 110>> THEN [ok |-> TRUE, v |-> FNan]
        ELSE IF mantOk /\ expOk
        THEN [ok |-> TRUE, v |-> Fin(IF neg THEN -num ELSE num, den)]
        ELSE [ok |-> FALSE, v |-> FZero]

\* param.parse::<f64>().unwrap_or_default()
ParseAmount(s) == ParseF64(s).v

(***************************************************************************)
(* u64 arithmetic of check_rates_file: a u64 is four 16-bit limbs, least   *)
(* significant first, so that the subtraction wraps at 2^64 as the machine *)
(* does.                                                                   *)
(***************************************************************************)
LimbBase == 65536
TTL == 3600

\* Duration::as_secs() of a time that fits 32 bits
ToU64(t) == <<t % LimbBase, (t \div LimbBase) % LimbBase, 0, 0>>

RECURSIVE SubLimbs(_, _, _, _)
\* limbs i..4 of a - b with the borrow coming in
SubLimbs(a, b, i, borrow) ==
    IF i > 4 THEN << >>
    ELSE LET d == a[i] - b[i] - borrow
         IN  <<d % LimbBase>> \o SubLimbs(a, b, i + 1, IF d < 0 THEN 1 ELSE 0)

\* a - b modulo 2^64
WrappingSub(a, b) == SubLimbs(a, b, 1, 0)

\* a >= b on u64
RECURSIVE U64GeFrom(_, _, _)
U64GeFrom(a, b, i) ==
    IF i = 0 THEN TRUE
    ELSE IF a[i] > b[i] THEN TRUE
    ELSE IF a[i] < b[i] THEN FALSE
    ELSE U64GeFrom(a, b, i - 1)

U64Ge(a, b) == U64GeFrom(a, b, 4)

\* the comparison written `>` instead of `>=`
AgeCheck_Greater(cur, fdate, checks) ==
    IF cur < fdate /\ checks THEN "panic"
    ELSE IF U64Ge(WrappingSub(ToU64(cur), ToU64(fdate)), ToU64(TTL + 1)) THEN "stale"
    ELSE "fresh"

\* `cur_date - file_date >= 3_600` (line 137): "panic" when the subtraction
\* overflows in a build with overflow checks, otherwise the comparison on the
\* wrapped difference
AgeCheck(cur, fdate, checks) ==
    IF cur < fdate /\ checks THEN "panic"
    ELSE IF U64Ge(WrappingSub(ToU64(cur), ToU64(fdate)), ToU64(TTL)) THEN "stale"
    ELSE "fresh"

(***************************************************************************)
(* The cache file and the payloads a transfer can leave in it.  A JSON     *)
(* value is kept parsed: [t |-> "num", v], [t |-> "str"], [t |-> "arr"] or *)
(* [t |-> "obj", m] with m a function from member names to values.  A file *)
(* content is [kind |-> "empty"], [kind |-> "invalid"] (bytes that are not *)
(* a JSON text) or [kind |-> "json", val].                                 *)
(***************************************************************************)
JNum(n, d) == [t |-> "num", v |-> Fin(n, d)]
JStr == [t |-> "str"]
JArr == [t |-> "arr"]
JObj(m) == [t |-> "obj", m |-> m]

CEmpty == [kind |-> "empty"]
CInvalid == [kind |-> "invalid"]
CJson(v) == [kind |-> "json", val |-> v]

B_good == CJson(JObj((S_base :> JStr) @@
                     (S_rates :> JObj((S_EUR :> JNum(1, 1)) @@ (S_USD :> JNum(3, 2)) @@
                                      (S_XYZ :> JNum(4, 1)) @@ (S_GBP :> JNum(0, 1))))))
B_small == CJson(JObj(S_rates :> JObj((S_EUR :> JNum(1, 1)) @@ (S_JPY :> JNum(150, 1)) @@
                                       (S_chf :> JNum(2, 1)))))
B_noRates == CJson(JObj(S_base :> JStr))
B_ratesNotObject == CJson(JObj(S_rates :> JNum(1, 1)))
B_nonNumeric == CJson(JObj(S_rates :> JObj((S_EUR :> JNum(1, 1)) @@ (S_USD :> JStr))))
B_notObject == CJson(JArr)

\* what a transfer that perform() reports as Ok can have delivered: the body
\* is not validated
Bodies == {B_good, B_small, B_noRates, B_ratesNotObject, B_nonNumeric, B_notObject,
           CInvalid, CEmpty}

\* what the file holds when perform() fails: nothing, or the beginning of a body
Partials == {CEmpty, CInvalid}

NoFile == [exists |-> FALSE]

\* readable: File::open succeeds; complete: the content is the whole body of
\* a transfer that succeeded, at time okAt
MkFile(readable, mtime, content, complete, okAt) ==
    [exists |-> TRUE, readable |-> readable, mtime |-> mtime, content |-> content,
     complete |-> complete, okAt |-> okAt]

InitFiles ==
    {NoFile} \cup
    {MkFile(TRUE, t, B_good, TRUE, t) : t \in {StartTime - TTL, StartTime - TTL + 1}} \cup
    {MkFile(FALSE, StartTime - 1, B_good, TRUE, StartTime - 1)}

(***************************************************************************)
(* get_currency_name                                                       *)
(***************************************************************************)
\* the arms of the match, code |-> name
CurrencyNames ==
    (<<69, 85, 82>> :> "Euro") @@
    (<<85, 83, 68>> :> "US Dollar") @@
    (<<74, 80, 89>> :> "Japanese Yen") @@
    (<<66, 71, 78>> :> "Bulgarian Lev") @@
    (<<67, 90, 75>> :> "Czech Koruna") @@
    (<<68, 75, 75>> :> "Danish Krone") @@
    (<<71, 66, 80>> :> "Pound Sterling") @@
    (<<72, 85, 70>> :> "Hungarian Forint") @@
    (<<80, 76, 78>> :> "Polish Zloty") @@
    (<<82, 79, 78>> :> "Romanian Leu") @@
    (<<83, 69, 75>> :> "Swedish Krona") @@
    (<<67, 72, 70>> :> "Swiss Franc") @@
    (<<73, 83, 75>> :> "Islandic Krona") @@
    (<<78, 79, 75>> :> "Norwegian Krone") @@
    (<<84, 82, 89>> :> "Turkish Lira") @@
    (<<65, 85, 68>> :> "Australian Dollar") @@
    (<<66, 82, 76>> :> "Brazilian Real") @@
    (<<67, 65, 68>> :> "Canadian Dollar") @@
    (<<67, 78, 89>> :> "Chinese Yuan Renmimbi") @@
    (<<72, 75, 68>> :> "Hong Kong Dollar") @@
    (<<73, 68, 82>> :> "Indonesian Rupiah") @@
    (<<73, 76, 83>> :> "Israeli Shekel") @@
    (<<73, 78, 82>> :> "Indian Rupee") @@
    (<<75, 82, 87>> :> "South Korean Won") @@
    (<<77, 88, 78>> :> "Mexican Peso") @@
    (<<77, 89, 82>> :> "Malaysian Ringgit") @@
    (<<78, 90, 68>> :> "New Zealand Dollar") @@
    (<<80, 72, 80>> :> "Philippine Peso") @@
    (<<83, 71, 68>> :> "Singapore Dollar") @@
    (<<84, 72, 66>> :> "Thai Baht") @@
    (<<90, 65, 82>> :> "South African Rand")

get_currency_name(code) ==
    IF code \in DOMAIN CurrencyNames THEN CurrencyNames[code] ELSE "Unknown"

(***************************************************************************)
(* parse_arguments                                                         *)
(***************************************************************************)
HelpFlags == {S_h, S_help}
VersionFlags == {S_V, S_version}
UsualFlags == {S_lu, S_list_usual, S_l, S_list}
CompleteFlags == {S_la, S_list_all}
ListFlags == UsualFlags \cup CompleteFlags

\* ExchangeProcess::new()
NewExchange ==
    [from |-> << >>, to |-> << >>, rate |-> FZero, amount_from |-> FZero,
     amount_to |-> FZero]

\* the result of parse_arguments: how it ended, the exchange it leaves, the
\* positional slots filled and the number of tokens it took from params
ParseResult(outcome, ex, pos, examined) ==
    [outcome |-> outcome, exchange |-> ex, pos |-> pos, examined |-> examined]

\* the while loop and the code after it, from token i on
RECURSIVE ParseLoop(_, _, _, _)
ParseLoop(params, i, pos, ex) ==
    IF i > Len(params) THEN
        (IF pos = 2 THEN ParseResult("Success", [ex EXCEPT !.amount_from = FOne], 3, i - 1)
         ELSE IF pos # 3 THEN ParseResult("exit1_not_enough", ex, pos, i - 1)
         ELSE ParseResult("Success", ex, pos, i - 1))
    ELSE LET param == params[i] IN
        IF param \in HelpFlags THEN ParseResult("exit0_help", ex, pos, i)
        ELSE IF param \in VersionFlags THEN ParseResult("exit0_version", ex, pos, i)
        ELSE IF param \in UsualFlags THEN ParseResult("SuccessAndUsualList", ex, pos, i)
        ELSE IF param \in CompleteFlags THEN
            ParseResult("SuccessAndCompleteList", ex, pos, i)
        ELSE IF StartsWithDash(param) THEN ParseResult("ArgumentError", ex, pos, i)
        ELSE IF pos = 0 THEN
            ParseLoop(params, i + 1, 1, [ex EXCEPT !.from = ToAsciiUppercase(param)])
        ELSE IF pos = 1 THEN
            ParseLoop(params, i + 1, 2, [ex EXCEPT !.to = ToAsciiUppercase(param)])
        ELSE IF pos = 2 THEN
            ParseLoop(params, i + 1, 3, [ex EXCEPT !.amount_from = ParseAmount(param)])
        ELSE ParseResult("ArgumentError", ex, pos, i)

\* the to-code stored as typed, not upper-cased
parse_arguments_RawTo(params, ex) ==
    LET r == IF Len(params) = 0 THEN ParseResult("exit1_usage", ex, 0, 0)
             ELSE ParseLoop(params, 1, 0, ex)
    IN  IF r.pos >= 2 THEN [r EXCEPT !.exchange.to = params[2]] ELSE r

\* the full slots reported before the token is matched against the flags
parse_arguments_SlotsFirst(params, ex) ==
    LET r == IF Len(params) = 0 THEN ParseResult("exit1_usage", ex, 0, 0)
             ELSE ParseLoop(params, 1, 0, ex)
    IN  IF r.pos = 3 /\ r.outcome \in {"SuccessAndUsualList", "SuccessAndCompleteList"}
        THEN ParseResult("ArgumentError", r.exchange, r.pos, r.examined)
        ELSE r

\* without the test for an empty argument list
parse_arguments_NoUsage(params, ex) == ParseLoop(params, 1, 0, ex)

parse_arguments(params, ex) ==
    IF Len(params) = 0 THEN ParseResult("exit1_usage", ex, 0, 0)
    ELSE ParseLoop(params, 1, 0, ex)

(***************************************************************************)
(* The run.                                                                *)
(***************************************************************************)
EmptyRates == [c \in {} |-> FZero]

NoCheck ==
    [exists |-> FALSE, opened |-> FALSE, meta |-> FALSE, mtime |-> 0, now |-> 0]

NotParsed == ParseResult("none", NewExchange, 0, 0)

\* the argument lists a run is started with
RunArgs ==
    { << >>, <<S_h>>, <<S_version>>, <<S_eur>>, <<S_eur, S_Usd>>, <<S_usd, S_eur, S_50>>,
      <<S_abc, S_usd>>, <<S_eur, S_abc>>, <<S_abc, S_chf>>, <<S_eur, S_gbp, S_1p5>>,
      <<S_gbp, S_eur>>, <<S_usd, S_xyz, S_nan>>, <<S_l>>, <<S_list_all>>, <<S_q>> }

\* the process ends: process::exit(code), a panic (status 101) or the return
\* of run()
Ends(kind, code) ==
    /\ pc' = "done"
    /\ exitKind' = kind
    /\ exitCode' = code

Continues(next) ==
    /\ pc' = next
    /\ UNCHANGED <<exitKind, exitCode>>

\* a new process is started on the same cache file
StartRun ==
    /\ pc \in {"idle", "done"}
    /\ \E a \in RunArgs : args' = a
    /\ pc' = "check"
    /\ fresh' = "none"
    /\ chk' = NoCheck
    /\ fetched' = "none"
    /\ loaded' = "none"
    /\ rates' = EmptyRates
    /\ parsed' = NotParsed
    /\ exchange' = NewExchange
    /\ out' = << >>
    /\ steps' = << >>
    /\ exitKind' = "none"
    /\ exitCode' = 0
    /\ UNCHANGED <<now, ticks, overflowChecks, file>>

\* the system clock moves between two runs, forward or (an adjustment) one
\* second back; a run takes less than a second of it
Tick ==
    /\ pc \in {"idle", "done"}
    /\ ticks < MaxTicks
    /\ \E d \in {1, TTL - 1, -1} : now' = now + d
    /\ ticks' = ticks + 1
    /\ UNCHANGED <<pc, overflowChecks, file, args, fresh, chk, fetched, loaded, rates,
                   parsed, exchange, out, steps, exitKind, exitCode>>

\* check_rates_file() with what it saw; metaOk: file.metadata() succeeds.
\* modified() and duration_since(UNIX_EPOCH) succeed: the times are seconds
\* after the epoch on a platform that keeps modification times
check_rates_file(f, cur, checks, metaOk) ==
    IF ~f.exists THEN "stale"
    ELSE IF ~f.readable THEN "stale"
    ELSE IF ~metaOk THEN "stale"
    ELSE AgeCheck(cur, f.mtime, checks)

\* run(), line 48: the freshness check
CheckRatesFile ==
    /\ pc = "check"
    /\ \E metaOk \in BOOLEAN :
        LET r == check_rates_file(file, now, overflowChecks, metaOk) IN
        /\ fresh' = r
        /\ chk' = [exists |-> file.exists,
                   opened |-> file.exists /\ file.readable,
                   meta |-> file.exists /\ file.readable /\ metaOk,
                   mtime |-> IF file.exists THEN file.mtime ELSE 0,
                   now |-> now]
        /\ IF r = "panic" THEN Ends("panic", 101)
           ELSE IF r = "fresh" THEN Continues("load")
           ELSE Continues("download")
    /\ steps' = Append(steps, "check")
    /\ UNCHANGED <<now, ticks, overflowChecks, file, args, fetched, loaded, rates, parsed,
                   exchange, out>>

\* File::create leaves an existing file's permissions alone
Created(f, content, complete) ==
    MkFile(IF f.exists THEN f.readable ELSE TRUE, now, content, complete,
           IF complete THEN now ELSE 0)

\* run(), lines 49-52: download_rates_file().  createOk: File::create
\* succeeds; the transfer then ends with perform() Ok and a body, with
\* perform() Err after none or some of the body, or with a panic of
\* write_all(..).unwrap() when the file cannot be written
DownloadRatesFile ==
    /\ pc = "download"
    /\ \/ /\ fetched' = "failed"
          /\ UNCHANGED file
          /\ Ends("exit", 1)
       \/ \E body \in Bodies :
          /\ file' = Created(file, body, TRUE)
          /\ fetched' = "ok"
          /\ Continues("load")
       \/ \E part \in Partials :
          /\ file' = Created(file, part, FALSE)
          /\ fetched' = "failed"
          /\ Ends("exit", 1)
       \/ \E part \in Partials :
          /\ file' = Created(file, part, FALSE)
          /\ fetched' = "panic"
          /\ Ends("panic", 101)
    /\ steps' = Append(steps, "fetch")
    /\ UNCHANGED <<now, ticks, overflowChecks, args, fresh, chk, loaded, rates, parsed,
                   exchange, out>>

\* serde_json::from_str(..).unwrap(), .as_object() .. .unwrap() and
\* as_f64().unwrap() of the loader: is there a panic on this content
LoadPanics(content) ==
    \/ content.kind = "invalid"
    \/ /\ content.kind = "json"
       /\ \/ content.val.t # "obj"
          \/ S_rates \notin DOMAIN content.val.m
          \/ content.val.m[S_rates].t # "obj"
          \/ \E c \in DOMAIN content.val.m[S_rates].m :
                content.val.m[S_rates].m[c].t # "num"

\* the HashMap the loader fills from a content it does not panic on
LoadedRates(content) ==
    LET r == content.val.m[S_rates].m
    IN  [c \in DOMAIN r |-> r[c].v]

\* load_rates_file_from_disk(): "failed" (returns false), "panic" or "ok"
load_rates_file_from_disk(f) ==
    IF ~f.exists \/ ~f.readable THEN "failed"
    ELSE IF f.content.kind = "empty" THEN "failed"
    ELSE IF LoadPanics(f.content) THEN "panic"
    ELSE "ok"

\* run(), lines 55-58
LoadRatesFile ==
    /\ pc = "load"
    /\ LET r == load_rates_file_from_disk(file) IN
        /\ loaded' = r
        /\ rates' = IF r = "ok" THEN LoadedRates(file.content) ELSE rates
        /\ IF r = "ok" THEN Continues("parse")
           ELSE IF r = "panic" THEN Ends("panic", 101)
           ELSE Ends("exit", 2)
    /\ steps' = Append(steps, "load")
    /\ UNCHANGED <<now, ticks, overflowChecks, file, args, fresh, chk, fetched, parsed,
                   exchange, out>>

\* run(), lines 60-72
ParseArguments ==
    /\ pc = "parse"
    /\ LET r == parse_arguments(args, exchange) IN
        /\ parsed' = r
        /\ exchange' = r.exchange
        /\ IF r.outcome \in {"exit1_usage", "exit1_not_enough"} THEN Ends("exit", 1)
           ELSE IF r.outcome \in {"exit0_help", "exit0_version"} THEN Ends("exit", 0)
           ELSE IF r.outcome = "ArgumentError" THEN Ends("exit", 3)
           ELSE IF r.outcome = "SuccessAndUsualList" THEN Continues("list_usual")
           ELSE IF r.outcome = "SuccessAndCompleteList" THEN Continues("list_all")
           ELSE Continues("convert")
    /\ steps' = Append(steps, "parse")
    /\ UNCHANGED <<now, ticks, overflowChecks, file, args, fresh, chk, fetched, loaded,
                   rates, out>>

\* without the test for "Unknown"
print_usual_rates_Unfiltered(table) == SortedKeys(DOMAIN table)

\* the codes print_usual_rates prints, in order
print_usual_rates(table) ==
    SelectSeq(SortedKeys(DOMAIN table), LAMBDA c : get_currency_name(c) # "Unknown")

\* the codes print_all_rates prints, in order
print_all_rates(table) == SortedKeys(DOMAIN table)

\* run(), lines 63-66
PrintUsualRates ==
    /\ pc = "list_usual"
    /\ out' = print_usual_rates(rates)
    /\ Ends("exit", 0)
    /\ steps' = Append(steps, "print")
    /\ UNCHANGED <<now, ticks, overflowChecks, file, args, fresh, chk, fetched, loaded,
                   rates, parsed, exchange>>

\* run(), lines 67-70
PrintAllRates ==
    /\ pc = "list_all"
    /\ out' = print_all_rates(rates)
    /\ Ends("exit", 0)
    /\ steps' = Append(steps, "print")
    /\ UNCHANGED <<now, ticks, overflowChecks, file, args, fresh, chk, fetched, loaded,
                   rates, parsed, exchange>>

\* the quotient the wrong way round
Convert_Inverted(table, ex) ==
    LET rate == FDiv(table[ex.from], table[ex.to])
    IN  [ex EXCEPT !.rate = rate, !.amount_to = FMul(ex.amount_from, rate)]

\* lines 83-84: the rate and the converted amount
Convert(table, ex) ==
    LET rate == FDiv(table[ex.to], table[ex.from])
    IN  [ex EXCEPT !.rate = rate, !.amount_to = FMul(ex.amount_from, rate)]

\* the TO code looked up before the FROM code
LookupCode_ToFirst(table, ex) ==
    IF ex.to \notin DOMAIN table THEN 5
    ELSE IF ex.from \notin DOMAIN table THEN 4
    ELSE 0

\* lines 74-81: 4 or 5 when a code is missing, 0 when both are there
LookupCode(table, ex) ==
    IF ex.from \notin DOMAIN table THEN 4
    ELSE IF ex.to \notin DOMAIN table THEN 5
    ELSE 0

\* run(), lines 74-94
ConvertAndPrint ==
    /\ pc = "convert"
    /\ LET code == LookupCode(rates, exchange) IN
        IF code # 0
        THEN /\ Ends("exit", code)
             /\ UNCHANGED exchange
        ELSE /\ exchange' = Convert(rates, exchange)
             /\ Ends("return", 0)
    /\ steps' = Append(steps, "convert")
    /\ UNCHANGED <<now, ticks, overflowChecks, file, args, fresh, chk, fetched, loaded,
                   rates, parsed, out>>

Init ==
    /\ pc = "idle"
    /\ now = StartTime
    /\ ticks = 0
    /\ overflowChecks \in BOOLEAN
    /\ file \in InitFiles
    /\ args = << >>
    /\ fresh = "none"
    /\ chk = NoCheck
    /\ fetched = "none"
    /\ loaded = "none"
    /\ rates = EmptyRates
    /\ parsed = NotParsed
    /\ exchange = NewExchange
    /\ out = << >>
    /\ steps = << >>
    /\ exitKind = "none"
    /\ exitCode = 0

Next ==
    \/ StartRun
    \/ Tick
    \/ CheckRatesFile
    \/ DownloadRatesFile
    \/ LoadRatesFile
    \/ ParseArguments
    \/ PrintUsualRates
    \/ PrintAllRates
    \/ ConvertAndPrint

Spec == Init /\ [][Next]_vars

(***************************************************************************)
(* The argument parser on its own: a run that has loaded its table and is  *)
(* about to parse, for every argument list made of up to MaxArgs           *)
(* positional tokens, then possibly a flag, then possibly more tokens.     *)
(***************************************************************************)
Positionals == {S_eur, S_Usd, S_50, S_x}
AllFlags == HelpFlags \cup VersionFlags \cup ListFlags \cup {S_q}
Trailers == { << >>, <<S_abc>>, <<S_h>>, <<S_q, S_7>> }

SeqsUpTo(S, n) == UNION {[1..k -> S] : k \in 0..n}

ArgLists ==
    {p \o m \o t : p \in SeqsUpTo(Positionals, MaxArgs),
                   m \in {<< >>} \cup {<<f>> : f \in AllFlags},
                   t \in Trailers}

InitArgs ==
    /\ pc = "parse"
    /\ now = StartTime
    /\ ticks = 0
    /\ overflowChecks = FALSE
    /\ file = MkFile(TRUE, StartTime, B_good, TRUE, StartTime)
    /\ args \in ArgLists
    /\ fresh = "fresh"
    /\ chk = [exists |-> TRUE, opened |-> TRUE, meta |-> TRUE, mtime |-> StartTime,
              now |-> StartTime]
    /\ fetched = "none"
    /\ loaded = "ok"
    /\ rates = LoadedRates(B_good)
    /\ parsed = NotParsed
    /\ exchange = NewExchange
    /\ out = << >>
    /\ steps = <<"check", "load">>
    /\ exitKind = "none"
    /\ exitCode = 0

NextArgs ==
    \/ ParseArguments
    \/ PrintUsualRates
    \/ PrintAllRates
    \/ ConvertAndPrint

SpecArgs == InitArgs /\ [][NextArgs]_vars

(***************************************************************************)
(* Properties.                                                             *)
(***************************************************************************)
Done == pc = "done"
Exited(code) == pc = "done" /\ exitKind = "exit" /\ exitCode = code
Has(step) == \E i \in 1..Len(steps) : steps[i] = step
Count(step) == Cardinality({i \in 1..Len(steps) : steps[i] = step})
IsPrefix(a, b) == Len(a) <= Len(b) /\ \A i \in 1..Len(a) : a[i] = b[i]
Checked == fresh # "none"

\* C1: check_rates_file returns false when the file does not exist, cannot
\* be opened or its metadata cannot be read, and otherwise false exactly
\* when current time minus modification time is >= 3600 (true in every
\* other case, a modification time after the current time included),
\* without crashing.
C1_FreshnessContract ==
    Checked =>
        /\ fresh # "panic"
        /\ fresh = "stale" <=>
              (~chk.exists \/ ~chk.opened \/ ~chk.meta \/ chk.now - chk.mtime >= 3600)

\* C2: every run executes freshness check, optional fetch, load, argument
\* parsing, compute/print in this order; the fetch, the only step that
\* writes the file, is performed at most once and only after the check
\* returned false; the load only after the check returned true or the fetch
\* succeeded; a fetch that failed ends the run with exit code 1 without
\* retry, load or argument parsing.
C2_FixedOrder ==
    /\ \E last \in {"print", "convert"} :
          \/ IsPrefix(steps, <<"check", "fetch", "load", "parse", last>>)
          \/ IsPrefix(steps, <<"check", "load", "parse", last>>)
    /\ Count("fetch") <= 1
    /\ Has("fetch") => fresh = "stale"
    /\ Has("fetch") <=> fetched # "none"
    /\ (Checked /\ ~Has("fetch") /\ file.exists) => file.mtime = chk.mtime
    /\ Has("load") => (fresh = "fresh" \/ fetched = "ok")
    /\ (Has("fetch") /\ fetched # "ok") =>
          /\ Exited(1)
          /\ steps = <<"check", "fetch">>
          /\ loaded = "none"
          /\ parsed.outcome = "none"

\* the part of C2 that is about the order of the steps alone
C2_OrderOfSteps ==
    /\ \E last \in {"print", "convert"} :
          \/ IsPrefix(steps, <<"check", "fetch", "load", "parse", last>>)
          \/ IsPrefix(steps, <<"check", "load", "parse", last>>)
    /\ Count("fetch") <= 1
    /\ Has("fetch") => fresh = "stale"
    /\ Has("load") => (fresh = "fresh" \/ fetched = "ok")
    /\ (Has("fetch") /\ fetched # "ok") =>
          /\ Done
          /\ steps = <<"check", "fetch">>
    /\ fetched = "failed" => Exited(1)

\* the cache file is written by the download and by nothing else
C2_OnlyFetchWrites == [][file' # file => pc = "download"]_vars

\* C3: whenever check_rates_file judges the file fresh, the file holds the
\* complete payload of a fetch that succeeded within the last hour; a file
\* left by a failed or partial fetch is never judged fresh and is refreshed
\* before a load.
C3_FreshMeansComplete ==
    /\ fresh = "fresh" =>
          /\ file.exists /\ file.complete
          /\ chk.now - file.okAt >= 0 /\ chk.now - file.okAt < 3600
    /\ (Has("load") /\ file.exists) => file.complete

\* C3 as amended: whenever check_rates_file judges the file fresh, the file
\* exists, can be opened and was last written (by a fetch, successful or not)
\* at most 3599 seconds before the check and not after it; the content can
\* be what a failed fetch left.
C3_FreshMeansRecentlyWritten ==
    fresh = "fresh" =>
        /\ file.exists /\ file.readable
        /\ chk.now - file.mtime >= 0 /\ chk.now - file.mtime < 3600
        /\ file.complete => file.okAt = file.mtime

\* a file left by a failed fetch is judged fresh and loaded
C3_Witness == fresh = "fresh" /\ ~file.complete /\ Has("load") /\ ~Has("fetch")

\* the content of a file the loader cannot make a table of
Unusable(f) ==
    \/ ~f.exists \/ ~f.readable
    \/ f.content \in {CEmpty, CInvalid}
    \/ /\ f.content.kind = "json"
       /\ \/ f.content.val.t # "obj"
          \/ S_rates \notin DOMAIN f.content.val.m
          \/ f.content.val.m[S_rates].t # "obj"
          \/ \E c \in DOMAIN f.content.val.m[S_rates].m :
                f.content.val.m[S_rates].m[c].t # "num"

\* C4: for every kind of load failure (file cannot be opened, content empty,
\* not valid JSON, no `rates` object, a rate that is not a number) the
\* loader reports an error and the run ends with exit code 2.
C4_LoadFailureExit2 ==
    (Has("load") /\ Unusable(file)) => (loaded = "failed" /\ Exited(2))

\* C5: in a conversion, a FROM code absent from the table ends the run with
\* exit code 4 (also when TO is absent too), a present FROM with an absent
\* TO with exit code 5, and the rate and the converted amount are computed
\* only when both codes are keys of the table.
C5_LookupPrecedence ==
    /\ Has("convert") =>
          /\ exchange.from \notin DOMAIN rates => Exited(4)
          /\ (exchange.from \in DOMAIN rates /\ exchange.to \notin DOMAIN rates)
                => Exited(5)
          /\ (exchange.from \in DOMAIN rates /\ exchange.to \in DOMAIN rates)
                => (Done /\ exitKind = "return")
    /\ (exchange.rate # [k |-> "fin", n |-> 0, d |-> 1]
          \/ exchange.amount_to # [k |-> "fin", n |-> 0, d |-> 1]
          \/ exitKind = "return")
          => (exchange.from \in DOMAIN rates /\ exchange.to \in DOMAIN rates)

\* both codes are missing and the run ends with 4
C5_Witness ==
    /\ Exited(4) /\ Has("convert")
    /\ exchange.from \notin DOMAIN rates /\ exchange.to \notin DOMAIN rates

NoFlagTokens == \A i \in 1..Len(args) : ~(Len(args[i]) >= 1 /\ args[i][1] = 45)

\* u is s with the ASCII letters a-z replaced by A-Z
UpperOf(u, s) ==
    /\ Len(u) = Len(s)
    /\ \A i \in 1..Len(s) :
          u[i] = (IF s[i] \in 97..122 THEN s[i] - 32 ELSE s[i])

\* the number a token of the argument lists stands for, 0.0 when it is none
AmountOf(t) ==
    IF t = <<53, 48>> THEN [k |-> "fin", n |-> 50, d |-> 1]
    ELSE [k |-> "fin", n |-> 0, d |-> 1]

\* C6: with only non-flag tokens, one token is the "not enough arguments"
\* error with exit code 1; two tokens give from and to upper-cased and
\* amount 1.0; three tokens give the third token parsed as a number, 0.0
\* when it does not parse; four or more are the "too many arguments"
\* ArgumentError (exit code 3).
C6_PositionalCount ==
    (NoFlagTokens /\ parsed.outcome # "none" /\ Len(args) >= 1) =>
        /\ Len(args) = 1 => (parsed.outcome = "exit1_not_enough" /\ Exited(1))
        /\ Len(args) \in {2, 3} =>
              /\ parsed.outcome = "Success"
              /\ UpperOf(exchange.from, args[1])
              /\ UpperOf(exchange.to, args[2])
        /\ Len(args) = 2 => exchange.amount_from = [k |-> "fin", n |-> 1, d |-> 1]
        /\ Len(args) = 3 => exchange.amount_from = AmountOf(args[3])
        /\ Len(args) >= 4 =>
              /\ parsed.outcome = "ArgumentError"
              /\ parsed.examined = 4
              /\ Exited(3)

\* two lower- or mixed-case codes and no amount
C6_Witness ==
    /\ parsed.outcome = "Success" /\ Len(args) = 2
    /\ args[2] # exchange.to
    /\ exchange.amount_from = [k |-> "fin", n |-> 1, d |-> 1]

UsualTokens == {<<45, 108>>, <<45, 45, 108, 105, 115, 116>>, <<45, 108, 117>>,
                <<45, 45, 108, 105, 115, 116, 45, 117, 115, 117, 97, 108>>}
CompleteTokens == {<<45, 108, 97>>, <<45, 45, 108, 105, 115, 116, 45, 97, 108, 108>>}

\* C7: tokens are examined in order and the first recognized flag decides: a
\* list flag returns its listing whatever follows it and however many
\* positional tokens (up to three) precede it, and no token after the
\* deciding one is examined.
C7_ListShortCircuit ==
    parsed.outcome # "none" =>
        /\ \A i \in 1..Len(args) :
              (/\ args[i] \in UsualTokens \cup CompleteTokens
               /\ i <= 4
               /\ \A j \in 1..(i - 1) : ~(Len(args[j]) >= 1 /\ args[j][1] = 45))
              => /\ parsed.outcome = (IF args[i] \in UsualTokens
                                      THEN "SuccessAndUsualList"
                                      ELSE "SuccessAndCompleteList")
                 /\ parsed.examined = i
                 /\ Done => (Exited(0) /\ Has("print"))
        /\ parsed.examined <= Len(args)
        /\ parsed.outcome \in {"SuccessAndUsualList", "SuccessAndCompleteList",
                               "exit0_help", "exit0_version"}
              => /\ parsed.examined >= 1
                 /\ \A j \in 1..(parsed.examined - 1) :
                       ~(Len(args[j]) >= 1 /\ args[j][1] = 45)

\* a list flag after three positional tokens, with tokens after it
C7_Witness ==
    /\ parsed.outcome = "SuccessAndCompleteList"
    /\ parsed.examined = 4
    /\ Len(args) > 4

\* C8: a run started with no arguments ends with the usage error and exit
\* code 1, and a run whose first argument is -h/--help or -V/--version ends
\* with exit code 0, in every state of the cache file and for every outcome
\* of the fetch and the load.
C8_WhateverTheCache ==
    Done =>
        /\ args = << >> => (Exited(1) /\ parsed.outcome = "exit1_usage")
        /\ (Len(args) >= 1 /\ args[1] \in {S_h, S_help, S_V, S_version}) => Exited(0)

\* C8 as amended: the arguments are examined only after a fresh check or a
\* successful fetch and a successful load; a run that gets there with no
\* arguments ends with the usage error and exit code 1, one whose first
\* argument is -h/--help or -V/--version with exit code 0; a run whose fetch
\* or load fails ends there, with 1, 2 or a panic, whatever its arguments.
C8_AfterLoad ==
    /\ Has("parse") <=> parsed.outcome # "none"
    /\ Has("parse") => (loaded = "ok" /\ (fresh = "fresh" \/ fetched = "ok"))
    /\ (Done /\ Has("parse")) =>
          /\ args = << >> => (Exited(1) /\ parsed.outcome = "exit1_usage")
          /\ (Len(args) >= 1 /\ args[1] \in {S_h, S_help, S_V, S_version})
                => (Exited(0) /\ parsed.examined = 1)
    /\ (Done /\ ~Has("parse")) =>
          \/ exitKind = "panic"
          \/ Exited(1) /\ fetched = "failed"
          \/ Exited(2) /\ loaded = "failed"

\* no arguments, the table fetched and loaded: the usage error
C8_Witness ==
    /\ Done /\ args = << >> /\ parsed.outcome = "exit1_usage"
    /\ fetched = "ok" /\ loaded = "ok"

Positive(x) == x.k = "fin" /\ x.n > 0

\* the amount that converting the result back gives
BackAmount ==
    FMul(exchange.amount_to, FDiv(rates[exchange.from], rates[exchange.to]))

Converted == Done /\ exitKind = "return" /\ Has("convert")

\* C9: for codes c1, c2 of the table with rate(c1) > 0 the conversion
\* computes rate = T[c2] / T[c1] and amount_to = amount_from * rate, and
\* converting the result back from c2 to c1 returns the original amount.
C9_RoundTrip ==
    (Converted /\ Positive(rates[exchange.from])) =>
        /\ exchange.rate = FDiv(rates[exchange.to], rates[exchange.from])
        /\ exchange.amount_to = FMul(exchange.amount_from, exchange.rate)
        /\ FEq(BackAmount, exchange.amount_from)

\* C9 as amended: the same for rate(c1) > 0, rate(c2) > 0 and a finite
\* amount (no NaN, no infinity), rounding apart.
C9_RoundTripPositive ==
    (/\ Converted
     /\ Positive(rates[exchange.from]) /\ Positive(rates[exchange.to])
     /\ exchange.amount_from.k = "fin") =>
        /\ exchange.rate.k = "fin"
        /\ exchange.rate.n * rates[exchange.from].n * rates[exchange.to].d
              = exchange.rate.d * rates[exchange.from].d * rates[exchange.to].n
        /\ exchange.amount_to.k = "fin"
        /\ exchange.amount_to.n * exchange.amount_from.d * exchange.rate.d
              = exchange.amount_to.d * exchange.amount_from.n * exchange.rate.n
        /\ FEq(BackAmount, exchange.amount_from)

\* 50 of a currency converted into another one, at a rate that is not 1
C9_Witness ==
    /\ Converted
    /\ Positive(rates[exchange.from]) /\ Positive(rates[exchange.to])
    /\ exchange.from # exchange.to
    /\ exchange.amount_from = [k |-> "fin", n |-> 50, d |-> 1]
    /\ exchange.rate # [k |-> "fin", n |-> 1, d |-> 1]

Ascending(q) == \A i \in 1..Len(q) : \A j \in 1..Len(q) : i < j => StrLess(q[i], q[j])
Range(q) == {q[i] : i \in 1..Len(q)}

\* C10: a usual listing prints, in lexicographic order, exactly the keys of
\* the table whose currency name is not "Unknown"; a complete listing prints
\* every key in lexicographic order, unmapped ones included; both end with
\* exit code 0 without looking up or converting a currency.
C10_Listings ==
    (Done /\ Has("print")) =>
        /\ Ascending(out)
        /\ parsed.outcome = "SuccessAndUsualList" =>
              /\ Range(out) = {c \in DOMAIN rates : get_currency_name(c) # "Unknown"}
              /\ DOMAIN rates = {S_EUR, S_USD, S_XYZ, S_GBP}
                    => out = <<S_EUR, S_GBP, S_USD>>
              /\ DOMAIN rates = {S_EUR, S_JPY, S_chf} => out = <<S_EUR, S_JPY>>
        /\ parsed.outcome = "SuccessAndCompleteList" =>
              /\ Range(out) = DOMAIN rates
              /\ DOMAIN rates = {S_EUR, S_USD, S_XYZ, S_GBP}
                    => out = <<S_EUR, S_GBP, S_USD, S_XYZ>>
              /\ DOMAIN rates = {S_EUR, S_JPY, S_chf} => out = <<S_EUR, S_JPY, S_chf>>
        /\ parsed.outcome \in {"SuccessAndUsualList", "SuccessAndCompleteList"}
        /\ Exited(0)
        /\ ~Has("convert")
        /\ exchange.rate = [k |-> "fin", n |-> 0, d |-> 1]
        /\ exchange.amount_to = [k |-> "fin", n |-> 0, d |-> 1]

\* a usual listing of a table that has a code without a name
C10_Witness ==
    /\ Done /\ Has("print") /\ parsed.outcome = "SuccessAndUsualList"
    /\ S_XYZ \in DOMAIN rates
    /\ Len(out) = 3

====
